---------------------------- MODULE Spec2Model ----------------------------
(***************************************************************************)
(* Web Baby AI backend (src/main.py, src/models.py, src/database.py).      *)
(*                                                                         *)
(* Python strings are modelled as sequences of one-character strings, so   *)
(* that lower(), strip(), startswith(), endswith() and `in` are computed   *)
(* character by character as the interpreter computes them.                *)
(*                                                                         *)
(* Four specifications:                                                    *)
(*   Spec      every HTTP handler as one atomic step (one request at a     *)
(*             time), over the three tables;                               *)
(*   SpecTeach /teach and /reset_all alone, with more teaching;            *)
(*   SpecParse the command classifier of run_command applied to a bounded  *)
(*             set of command strings;                                     *)
(*   SpecConc  two /command requests whose save_web_knowledge steps        *)
(*             (SELECT, then INSERT/UPDATE + COMMIT) interleave.           *)
(***************************************************************************)
EXTENDS Integers, Sequences, FiniteSets

VARIABLES
    web,          \* table web_knowledge: set of rows [id, topic, source, summary]
    concepts,     \* table concepts: set of rows [id, word, label, seen_count, correct_count]
    experiences,  \* table experiences: rows in insertion order
    resp,         \* the response of the last request handled
    calls,        \* the providers the last /command invoked, in order
    lastUpsert,   \* history: per topic, the arguments of the last save_web_knowledge call
    cmdIn,        \* SpecParse: the command string under classification
    parsed,       \* SpecParse: the classifier's result for cmdIn
    reqs          \* SpecConc: the two in-flight /command requests

vars == <<web, concepts, experiences, resp, calls, lastUpsert, cmdIn, parsed, reqs>>

----------------------------------------------------------------------------
(* Bounds of the model *)

\* Command strings of SpecParse are concatenations of at most MaxFrags fragments.
MaxFrags == 2

\* Rows of web_knowledge get ids up to MaxId (SQLite hands out max(id)+1).
MaxId == 2

\* At most MaxTaught rows in experiences (one per /teach) in Spec, whose
\* subject is the knowledge store, and MaxExperiences in SpecTeach.
MaxTaught == 1
MaxExperiences == 3

\* In SpecConc each of the two requests runs at most MaxRuns times.
MaxRuns == 2

----------------------------------------------------------------------------
(* Python str operations *)

Whitespace == {" ", "\t"}

UpperChars == <<"A","B","C","D","E","F","G","H","I","J","K","L","M",
                "N","O","P","Q","R","S","T","U","V","W","X","Y","Z">>
LowerChars == <<"a","b","c","d","e","f","g","h","i","j","k","l","m",
                "n","o","p","q","r","s","t","u","v","w","x","y","z">>

LowerChar(c) ==
    IF \E i \in 1..Len(UpperChars) : UpperChars[i] = c
    THEN LowerChars[CHOOSE i \in 1..Len(UpperChars) : UpperChars[i] = c]
    ELSE c

\* str.lower()
lower(s) == [i \in 1..Len(s) |-> LowerChar(s[i])]

RECURSIVE lstrip(_)
lstrip(s) == IF s # <<>> /\ Head(s) \in Whitespace THEN lstrip(Tail(s)) ELSE s

RECURSIVE rstrip(_)
rstrip(s) ==
    IF s # <<>> /\ s[Len(s)] \in Whitespace THEN rstrip(SubSeq(s, 1, Len(s) - 1)) ELSE s

\* str.strip()
strip(s) == rstrip(lstrip(s))

\* str.startswith(p)
startswith(s, p) == Len(s) >= Len(p) /\ SubSeq(s, 1, Len(p)) = p

\* str.endswith(p)
endswith(s, p) == Len(s) >= Len(p) /\ SubSeq(s, Len(s) - Len(p) + 1, Len(s)) = p

\* k in s
contains(s, k) == \E i \in 0..(Len(s) - Len(k)) : SubSeq(s, i + 1, i + Len(k)) = k

----------------------------------------------------------------------------
(* run_command: command classification (src/main.py 240-267) *)

Prefixes == <<
    <<"g","o"," ","a","n","d"," ","l","e","a","r","n"," ","h","o","w"," ","t","o"," ","c","o","o","k">>,
    <<"l","e","a","r","n"," ","h","o","w"," ","t","o"," ","c","o","o","k">>,
    <<"h","o","w"," ","t","o"," ","c","o","o","k">>,
    <<"l","e","a","r","n"," ","r","e","c","i","p","e"," ","f","o","r">>,
    <<"r","e","c","i","p","e"," ","f","o","r">>,
    <<"l","e","a","r","n"," ","a","b","o","u","t">>,
    <<"k","n","o","w"," ","a","b","o","u","t">>,
    <<"l","e","a","r","n">>,
    <<"w","h","a","t"," ","i","s">>,
    <<"e","x","p","l","a","i","n">> >>

KwCook   == <<"c","o","o","k">>
KwRecipe == <<"r","e","c","i","p","e">>
KwMake   == <<"m","a","k","e">>

\* text = req.command.lower().strip()
normalize(command) == strip(lower(command))

\* is_recipe = ("cook" in text) or ("recipe" in text) or ("make" in text)
is_recipe(text) == contains(text, KwCook) \/ contains(text, KwRecipe) \/ contains(text, KwMake)

\* The for loop over the prefix list, from its i-th element on: every prefix
\* the current string starts with is cut off and the rest stripped; the loop
\* has no break, so it goes on with the prefixes after the one it removed.
RECURSIVE strip_prefixes(_, _)
strip_prefixes(s, i) ==
    IF i > Len(Prefixes) THEN s
    ELSE IF startswith(s, Prefixes[i])
         THEN strip_prefixes(strip(SubSeq(s, Len(Prefixes[i]) + 1, Len(s))), i + 1)
         ELSE strip_prefixes(s, i + 1)

\* if dish_or_topic.endswith("."): dish_or_topic = dish_or_topic[:-1].strip()
strip_period(s) == IF endswith(s, <<".">>) THEN strip(SubSeq(s, 1, Len(s) - 1)) ELSE s

\* dish_or_topic as run_command has it at line 266
dish_or_topic(text) == strip_period(strip_prefixes(text, 1))

\* The mutant of classify: the check for an empty subject (lines 266-267) is left out.
classify_no_subject_check(command) ==
    LET text == normalize(command) IN
    IF text = <<>>
    THEN [status |-> 400, detail |-> "Command cannot be empty."]
    ELSE [status |-> 200,
          detected_type |-> IF is_recipe(text) THEN "recipe" ELSE "topic",
          topic_or_dish |-> dish_or_topic(text)]

\* The classifier's result: a 400 rejection or (intent, subject).
classify(command) ==
    LET text == normalize(command) IN
    IF text = <<>>
    THEN [status |-> 400, detail |-> "Command cannot be empty."]
    ELSE IF dish_or_topic(text) = <<>>
    THEN [status |-> 400, detail |-> "Could not detect topic/dish from command."]
    ELSE [status |-> 200,
          detected_type |-> IF is_recipe(text) THEN "recipe" ELSE "topic",
          topic_or_dish |-> dish_or_topic(text)]

----------------------------------------------------------------------------
(* Command strings *)

Fragments ==
    { Prefixes[i] : i \in 1..Len(Prefixes) }
    \cup { KwCook, KwRecipe, KwMake,
           <<" ">>, <<".">>, <<"\t">>,
           <<" ","d","a","l">>,
           <<"L","e","a","r","n">>,
           <<" ","M","A","K","E"," ">> }

RECURSIVE Concats(_)
Concats(n) ==
    IF n = 0 THEN { <<>> }
    ELSE Concats(n - 1) \cup { s \o f : s \in Concats(n - 1), f \in Fragments }

\* The commands the specification document gives as examples, and one with
\* two listed prefixes in a row.
ExampleCommands == {
    <<"l","e","a","r","n"," ","a","b","o","u","t"," ","b","l","a","c","k"," ","h","o","l","e","s">>,
    <<"m","a","k","e"," ","b","u","t","t","e","r"," ","c","h","i","c","k","e","n">>,
    <<"l","e","a","r","n"," ","h","o","w"," ","t","o"," ","c","o","o","k"," ","d","a","l">>,
    <<"g","o"," ","a","n","d"," ","l","e","a","r","n"," ","h","o","w"," ","t","o"," ","c","o","o","k"," ","b","u","t","t","e","r"," ","c","h","i","c","k","e","n">>,
    <<"l","e","a","r","n"," ","w","h","a","t"," ","i","s"," ","d","a","l">> }

AllCommands == Concats(MaxFrags) \cup ExampleCommands

NoResult == [status |-> 0]

\* The commands of Spec: both intents on one subject, a recipe command whose
\* verb is no listed prefix, and the three kinds of rejected command.
Commands == {
    <<"l","e","a","r","n"," ","a","b","o","u","t"," ","d","a","l">>,
    <<" ","R","e","c","i","p","e"," ","f","o","r"," ","d","a","l","."," ">>,
    <<"m","a","k","e"," ","t","e","a">>,
    <<"l","e","a","r","n">>,
    <<" ","\t">>,
    <<>> }

\* The topics GET/DELETE /knowledge/{topic} are called with.
Topics == { <<"d","a","l">>, <<"m","a","k","e"," ","t","e","a">>, <<"D","a","l">> }

Words    == {"cat", "dog"}
Labels   == {"animal", "safe"}
Confirms == {"yes_i_am_sure", "yes"}

----------------------------------------------------------------------------
(* What the remote endpoint does with one GET: the client raises, or a      *)
(* response arrives with a status code and a JSON payload.  payload stands  *)
(* for data["AbstractText"] (DuckDuckGo) or for the first element of        *)
(* data["meals"] (TheMealDB); "" is the empty abstract / no meals.          *)

ExcTexts    == {"ConnectTimeout"}
StatusCodes == {200, 404}
Payloads    == {"", "text"}

Replies ==
    [exc : {TRUE}, e : ExcTexts, status_code : {0}, payload : {""}]
    \cup [exc : {FALSE}, e : {""}, status_code : {200}, payload : Payloads]
    \cup [exc : {FALSE}, e : {""}, status_code : StatusCodes \ {200}, payload : {""}]

\* No GET was sent.
NoReply == [exc |-> FALSE, e |-> "", status_code |-> 0, payload |-> ""]

\* f"{r.status_code}"
CodeStr(c) == CASE c = 200 -> "200" [] c = 404 -> "404" [] OTHER -> "0"

\* Optional[str]: None, or a string given by its pieces
None == [is_none |-> TRUE, text |-> <<>>]
Str(pieces) == [is_none |-> FALSE, text |-> pieces]

\* A text made by an f-string: the template, the subject put into it, and the
\* other value put into it.
Text(fmt, subject, arg) == [fmt |-> fmt, subject |-> subject, arg |-> arg]

\* The mutant of fetch_duckduckgo_summary: an empty abstract is reported as a success.
fetch_duckduckgo_summary_empty_ok(topic, reply) ==
    IF reply.exc
    THEN [content |-> Text("(Fallback) Error calling DuckDuckGo for '{topic}': {e}", topic, reply.e),
          from_internet |-> FALSE, error_msg |-> Str(<<reply.e>>)]
    ELSE IF reply.status_code # 200
    THEN [content |-> Text("(Fallback) DuckDuckGo HTTP {r.status_code} for '{topic}'.",
                           topic, CodeStr(reply.status_code)),
          from_internet |-> FALSE, error_msg |-> Str(<<"HTTP ", CodeStr(reply.status_code)>>)]
    ELSE [content |-> Text("{abstract}", <<>>, reply.payload),
          from_internet |-> TRUE, error_msg |-> None]

fetch_duckduckgo_summary(topic, reply) ==
    IF reply.exc
    THEN [content |-> Text("(Fallback) Error calling DuckDuckGo for '{topic}': {e}", topic, reply.e),
          from_internet |-> FALSE, error_msg |-> Str(<<reply.e>>)]
    ELSE IF reply.status_code # 200
    THEN [content |-> Text("(Fallback) DuckDuckGo HTTP {r.status_code} for '{topic}'.",
                           topic, CodeStr(reply.status_code)),
          from_internet |-> FALSE, error_msg |-> Str(<<"HTTP ", CodeStr(reply.status_code)>>)]
    ELSE IF reply.payload = ""
    THEN [content |-> Text("(Fallback) No direct summary found for '{topic}'.", topic, ""),
          from_internet |-> FALSE, error_msg |-> Str(<<"Empty abstract">>)]
    ELSE [content |-> Text("{abstract}", <<>>, reply.payload),
          from_internet |-> TRUE, error_msg |-> None]

\* The mutant of fetch_recipe: a caught exception leaves no error message.
fetch_recipe_exc_no_error(dish, reply) ==
    IF reply.exc
    THEN [content |-> Text("(Fallback) Error fetching recipe for '{dish}': {e}", dish, reply.e),
          from_internet |-> FALSE, error_msg |-> None]
    ELSE IF reply.status_code # 200
    THEN [content |-> Text("(Fallback) Could not fetch recipe for '{dish}'. HTTP {r.status_code}.",
                           dish, CodeStr(reply.status_code)),
          from_internet |-> FALSE, error_msg |-> Str(<<"HTTP ", CodeStr(reply.status_code)>>)]
    ELSE IF reply.payload = ""
    THEN [content |-> Text("(Fallback) No recipe found online for '{dish}'.", dish, ""),
          from_internet |-> FALSE, error_msg |-> Str(<<"No meals in response">>)]
    ELSE [content |-> Text("Recipe for {name} ({category} {area}).\n\n{instructions}", <<>>, reply.payload),
          from_internet |-> TRUE, error_msg |-> None]

fetch_recipe(dish, reply) ==
    IF reply.exc
    THEN [content |-> Text("(Fallback) Error fetching recipe for '{dish}': {e}", dish, reply.e),
          from_internet |-> FALSE, error_msg |-> Str(<<reply.e>>)]
    ELSE IF reply.status_code # 200
    THEN [content |-> Text("(Fallback) Could not fetch recipe for '{dish}'. HTTP {r.status_code}.",
                           dish, CodeStr(reply.status_code)),
          from_internet |-> FALSE, error_msg |-> Str(<<"HTTP ", CodeStr(reply.status_code)>>)]
    ELSE IF reply.payload = ""
    THEN [content |-> Text("(Fallback) No recipe found online for '{dish}'.", dish, ""),
          from_internet |-> FALSE, error_msg |-> Str(<<"No meals in response">>)]
    ELSE [content |-> Text("Recipe for {name} ({category} {area}).\n\n{instructions}", <<>>, reply.payload),
          from_internet |-> TRUE, error_msg |-> None]

TagRecipeApi          == <<"r","e","c","i","p","e","_","a","p","i">>
TagRecipeApiFallback  == <<"r","e","c","i","p","e","_","a","p","i","_","f","a","l","l","b","a","c","k">>
TagDuckduckgo         == <<"d","u","c","k","d","u","c","k","g","o">>
TagDuckduckgoFallback == <<"d","u","c","k","d","u","c","k","g","o","_","f","a","l","l","b","a","c","k">>

\* The mutant of source_tag: a failed topic fetch is tagged like a successful one.
source_tag_topic_untagged(recipe, from_internet) ==
    IF recipe
    THEN (IF from_internet THEN TagRecipeApi ELSE TagRecipeApiFallback)
    ELSE TagDuckduckgo

\* source = "recipe_api" if from_internet else "recipe_api_fallback"   (recipe)
\* source = "duckduckgo" if from_internet else "duckduckgo_fallback"   (topic)
source_tag(recipe, from_internet) ==
    IF recipe
    THEN (IF from_internet THEN TagRecipeApi ELSE TagRecipeApiFallback)
    ELSE (IF from_internet THEN TagDuckduckgo ELSE TagDuckduckgoFallback)

\* The provider run_command awaits for an intent.
provider_of(recipe) == IF recipe THEN "fetch_recipe" ELSE "fetch_duckduckgo_summary"

\* Lines 269-274: the one fetch of the command and the tag of its outcome.
fetch(recipe, subject, reply) ==
    LET r == IF recipe THEN fetch_recipe(subject, reply)
                       ELSE fetch_duckduckgo_summary(subject, reply)
    IN [content |-> r.content, from_internet |-> r.from_internet,
        error_msg |-> r.error_msg, source |-> source_tag(recipe, r.from_internet),
        calls |-> <<provider_of(recipe)>>]

----------------------------------------------------------------------------
(* Tables (src/models.py) and save_web_knowledge *)

Max(S) == CHOOSE x \in S : \A y \in S : y <= x

\* SQLite's INTEGER PRIMARY KEY: a new row gets the largest id in the table plus one.
next_id(table) == IF table = {} THEN 1 ELSE Max({ r.id : r \in table }) + 1

\* db.query(models.WebKnowledge).filter(topic == topic).first(): the empty set
\* for None, else the set of the one row returned (the lowest id; topic is
\* unique, so there is at most one to choose from).
query_first(table, topic) ==
    LET hits == { r \in table : r.topic = topic } IN
    IF hits = {} THEN {}
    ELSE { CHOOSE r \in hits : \A q \in hits : r.id <= q.id }

\* The mutant of save_write: the update branch writes summary and forgets source.
save_write_forgets_source(table, found, topic, content, source) ==
    IF found = {}
    THEN IF \E r \in table : r.topic = topic
         THEN [ok |-> FALSE, table |-> table]
         ELSE [ok |-> TRUE,
               table |-> table \cup { [id |-> next_id(table), topic |-> topic,
                                       source |-> source, summary |-> content] }]
    ELSE LET rec == CHOOSE r \in found : TRUE IN
         [ok |-> TRUE,
          table |-> { IF r.id = rec.id THEN [r EXCEPT !.summary = content] ELSE r : r \in table }]

\* Lines 157-168 of save_web_knowledge, given the record the query loaded
\* (found, {} for None).  No record: INSERT, which the UNIQUE index on topic
\* refuses (IntegrityError) when a row of that topic is there by now.  A
\* record: the session UPDATEs, WHERE id = record.id, the columns whose new
\* value differs from the value loaded; no row of that id is an error
\* (StaleDataError at the flush, or the refresh of line 169 finding nothing).
\* Then COMMIT.
save_write(table, found, topic, content, source) ==
    IF found = {}
    THEN IF \E r \in table : r.topic = topic
         THEN [ok |-> FALSE, table |-> table]
         ELSE [ok |-> TRUE,
               table |-> table \cup { [id |-> next_id(table), topic |-> topic,
                                       source |-> source, summary |-> content] }]
    ELSE LET rec == CHOOSE r \in found : TRUE IN
         IF ~ \E r \in table : r.id = rec.id
         THEN [ok |-> FALSE, table |-> table]
         ELSE [ok |-> TRUE,
               table |-> { IF r.id = rec.id
                           THEN [r EXCEPT !.summary = IF rec.summary = content THEN @ ELSE content,
                                          !.source  = IF rec.source = source THEN @ ELSE source]
                           ELSE r : r \in table }]

\* save_web_knowledge run without interruption
save_web_knowledge(table, topic, content, source) ==
    save_write(table, query_first(table, topic), topic, content, source)

\* The history of upserts: the last (content, source) saved for a topic.
record_upsert(hist, topic, content, source) ==
    { u \in hist : u.topic # topic }
    \cup { [topic |-> topic, content |-> content, source |-> source] }

----------------------------------------------------------------------------
(* The handlers, each run without interruption (Spec) *)

Init ==
    /\ web = {} /\ concepts = {} /\ experiences = <<>>
    /\ resp = [op |-> "none", status |-> 0]
    /\ calls = <<>> /\ lastUpsert = {}
    /\ cmdIn = <<>> /\ parsed = NoResult /\ reqs = <<>>

\* classify over the commands of Spec, computed once
classified == [command \in Commands |-> classify(command)]

\* POST /command
run_command(command, reply) ==
    LET c == classified[command] IN
    IF c.status = 400
    THEN /\ resp' = [op |-> "command", request |-> [command |-> command, reply |-> NoReply],
                   status |-> 400, detail |-> c.detail]
         /\ calls' = <<>>
         /\ UNCHANGED <<web, concepts, experiences, lastUpsert>>
    ELSE LET recipe  == c.detected_type = "recipe"
             subject == c.topic_or_dish
             f       == fetch(recipe, subject, reply)
             saved   == save_web_knowledge(web, subject, f.content, f.source)
         IN /\ (query_first(web, subject) = {} => next_id(web) <= MaxId)
            /\ calls' = f.calls
            /\ web' = saved.table
            /\ lastUpsert' = record_upsert(lastUpsert, subject, f.content, f.source)
            /\ resp' = IF saved.ok
                       THEN [op |-> "command",
                             request |-> [command |-> command, reply |-> reply],
                             status |-> 200,
                             detected_type |-> c.detected_type,
                             topic_or_dish |-> subject,
                             from_internet |-> f.from_internet,
                             source |-> f.source,
                             debug_error |-> f.error_msg]
                       ELSE [op |-> "command",
                             request |-> [command |-> command, reply |-> reply],
                             status |-> 500]
            /\ UNCHANGED <<concepts, experiences>>

\* GET /knowledge/{topic}
get_knowledge(topic) ==
    LET record == query_first(web, topic) IN
    /\ resp' = IF record = {}
               THEN [op |-> "get_knowledge", request |-> topic, status |-> 404]
               ELSE LET r == CHOOSE x \in record : TRUE IN
                    [op |-> "get_knowledge", request |-> topic, status |-> 200,
                     topic |-> r.topic, source |-> r.source, summary |-> r.summary]
    /\ UNCHANGED <<web, concepts, experiences, calls, lastUpsert>>

\* The mutant of delete_record: the DELETE has no WHERE clause.
delete_record_all(table, record) == {}

\* db.delete(record); db.commit()
delete_record(table, record) == { r \in table : r.id \notin { x.id : x \in record } }

\* DELETE /knowledge/{topic}
delete_knowledge(topic) ==
    LET record == query_first(web, topic) IN
    IF record = {}
    THEN /\ resp' = [op |-> "delete_knowledge", request |-> topic, status |-> 404]
         /\ UNCHANGED <<web, concepts, experiences, calls, lastUpsert>>
    ELSE /\ web' = delete_record(web, record)
         /\ lastUpsert' = { u \in lastUpsert : u.topic # topic }
         /\ resp' = [op |-> "delete_knowledge", request |-> topic, status |-> 200]
         /\ UNCHANGED <<concepts, experiences, calls>>

\* db.query(models.Concept).filter(word == word).first()
concept_first(table, word) ==
    LET hits == { c \in table : c.word = word } IN
    IF hits = {} THEN {}
    ELSE { CHOOSE c \in hits : \A q \in hits : c.id <= q.id }

\* The mutant of teach_concepts: a repeat teach counts the word as seen, not as correct.
teach_concepts_seen_only(table, word, true_label) ==
    LET concept == concept_first(table, word) IN
    IF concept = {}
    THEN table \cup { [id |-> next_id(table), word |-> word, label |-> true_label,
                       seen_count |-> 1, correct_count |-> 1] }
    ELSE LET c == CHOOSE x \in concept : TRUE IN
         { IF r.id = c.id
           THEN [r EXCEPT !.label = true_label, !.seen_count = @ + 1]
           ELSE r : r \in table }

\* Lines 190-207 of teach_baby: the concepts table after the teach.
teach_concepts(table, word, true_label) ==
    LET concept == concept_first(table, word) IN
    IF concept = {}
    THEN table \cup { [id |-> next_id(table), word |-> word, label |-> true_label,
                       seen_count |-> 1, correct_count |-> 1] }
    ELSE LET c == CHOOSE x \in concept : TRUE IN
         { IF r.id = c.id
           THEN [r EXCEPT !.label = true_label, !.seen_count = @ + 1, !.correct_count = @ + 1]
           ELSE r : r \in table }

\* POST /teach
teach_baby(word, true_label) ==
    /\ concepts' = teach_concepts(concepts, word, true_label)
    /\ experiences' = Append(experiences,
                             [word |-> word, true_label |-> true_label,
                              ai_guess |-> true_label, was_correct |-> TRUE])
    /\ resp' = LET c == CHOOSE x \in concept_first(concepts', word) : TRUE IN
               [op |-> "teach", request |-> <<word, true_label>>, status |-> 200,
                word |-> c.word, label |-> c.label,
                seen_count |-> c.seen_count, correct_count |-> c.correct_count]
    /\ UNCHANGED <<web, calls, lastUpsert>>

\* POST /reset_all
reset_all(confirm) ==
    IF confirm # "yes_i_am_sure"
    THEN /\ resp' = [op |-> "reset_all", request |-> confirm, status |-> 400]
         /\ UNCHANGED <<web, concepts, experiences, calls, lastUpsert>>
    ELSE /\ experiences' = <<>>
         /\ concepts' = {}
         /\ web' = {}
         /\ lastUpsert' = {}
         /\ resp' = [op |-> "reset_all", request |-> confirm, status |-> 200]
         /\ UNCHANGED calls

Next ==
    \/ \E command \in Commands, reply \in Replies :
          run_command(command, reply) /\ UNCHANGED <<cmdIn, parsed, reqs>>
    \/ \E topic \in Topics : get_knowledge(topic) /\ UNCHANGED <<cmdIn, parsed, reqs>>
    \/ \E topic \in Topics : delete_knowledge(topic) /\ UNCHANGED <<cmdIn, parsed, reqs>>
    \/ \E word \in Words, true_label \in Labels :
          /\ Len(experiences) < MaxTaught
          /\ teach_baby(word, true_label)
          /\ UNCHANGED <<cmdIn, parsed, reqs>>
    \/ \E confirm \in Confirms : reset_all(confirm) /\ UNCHANGED <<cmdIn, parsed, reqs>>

Spec == Init /\ [][Next]_vars

----------------------------------------------------------------------------
(* SpecTeach: /teach and /reset_all alone *)

NextTeach ==
    \/ \E word \in Words, true_label \in Labels :
          /\ Len(experiences) < MaxExperiences
          /\ teach_baby(word, true_label)
          /\ UNCHANGED <<cmdIn, parsed, reqs>>
    \/ \E confirm \in Confirms : reset_all(confirm) /\ UNCHANGED <<cmdIn, parsed, reqs>>

SpecTeach == Init /\ [][NextTeach]_vars

----------------------------------------------------------------------------
(* SpecConc: two /command requests, each with a session of its own.  A      *)
(* request awaits its provider, then runs save_web_knowledge: the SELECT    *)
(* (Lookup), then the INSERT or UPDATE and the COMMIT (Commit).  The steps  *)
(* of the two requests interleave.                                          *)

Requests == {1, 2}

ConcCommands == {
    <<"l","e","a","r","n"," ","a","b","o","u","t"," ","d","a","l">>,
    <<" ","R","e","c","i","p","e"," ","f","o","r"," ","d","a","l","."," ">>,
    <<"l","e","a","r","n">> }

IdleRequest ==
    [pc |-> "idle", runs |-> 0, topic |-> <<>>, content |-> Text("", <<>>, ""),
     source |-> <<>>, found |-> {}, status |-> 0]

InitConc ==
    /\ web = {} /\ concepts = {} /\ experiences = <<>>
    /\ resp = [op |-> "none", status |-> 0]
    /\ calls = <<>> /\ lastUpsert = {}
    /\ cmdIn = <<>> /\ parsed = NoResult
    /\ reqs = [r \in Requests |-> IdleRequest]

\* Lines 240-274: the command is classified and the provider awaited.
Start(r, command, reply) ==
    /\ reqs[r].pc \in {"idle", "done"}
    /\ reqs[r].runs < MaxRuns
    /\ LET c == classified[command] IN
       IF c.status = 400
       THEN reqs' = [reqs EXCEPT ![r] =
                [IdleRequest EXCEPT !.pc = "done", !.runs = reqs[r].runs + 1, !.status = 400]]
       ELSE LET f == fetch(c.detected_type = "recipe", c.topic_or_dish, reply) IN
            reqs' = [reqs EXCEPT ![r] =
                [IdleRequest EXCEPT !.pc = "fetched", !.runs = reqs[r].runs + 1,
                                    !.topic = c.topic_or_dish,
                                    !.content = f.content, !.source = f.source]]
    /\ UNCHANGED <<web, concepts, experiences, resp, calls, lastUpsert, cmdIn, parsed>>

\* Lines 151-155: the session loads the record of the topic, or None.
Lookup(r) ==
    /\ reqs[r].pc = "fetched"
    /\ reqs' = [reqs EXCEPT ![r].pc = "looked",
                            ![r].found = query_first(web, reqs[r].topic)]
    /\ UNCHANGED <<web, concepts, experiences, resp, calls, lastUpsert, cmdIn, parsed>>

\* Lines 157-170: the insert or update is flushed and committed; an error of
\* the storage layer ends the request with status 500.
Commit(r) ==
    /\ reqs[r].pc = "looked"
    /\ LET saved == save_write(web, reqs[r].found, reqs[r].topic,
                               reqs[r].content, reqs[r].source)
       IN /\ web' = saved.table
          /\ reqs' = [reqs EXCEPT ![r].pc = "done",
                                  ![r].status = IF saved.ok THEN 200 ELSE 500]
    /\ UNCHANGED <<concepts, experiences, resp, calls, lastUpsert, cmdIn, parsed>>

NextConc ==
    \/ \E r \in Requests, command \in ConcCommands, reply \in Replies : Start(r, command, reply)
    \/ \E r \in Requests : Lookup(r)
    \/ \E r \in Requests : Commit(r)

SpecConc == InitConc /\ [][NextConc]_vars

----------------------------------------------------------------------------
(* SpecParse *)

InitParse ==
    /\ web = {} /\ concepts = {} /\ experiences = <<>>
    /\ resp = NoResult /\ calls = <<>> /\ lastUpsert = {}
    /\ reqs = <<>>
    /\ cmdIn \in AllCommands
    /\ parsed = NoResult

Classify ==
    /\ parsed = NoResult
    /\ parsed' = classify(cmdIn)
    /\ UNCHANGED <<web, concepts, experiences, resp, calls, lastUpsert, cmdIn, reqs>>

NextParse == Classify

SpecParse == InitParse /\ [][NextParse]_vars


----------------------------------------------------------------------------
(* Properties *)

present(table, topic) == \E r \in table : r.topic = topic

\* The last request was a /command that got past the classifier.
CommandServed == resp.op = "command" /\ resp.status # 400

\* The provider's GET did not yield content: it raised, or the status was not
\* 200, or the abstract / the list of meals was empty.
ReplyFails(reply) == reply.exc \/ reply.status_code # 200 \/ reply.payload = ""

FallbackSuffix == <<"_","f","a","l","l","b","a","c","k">>

\* The templates of the placeholder texts.
FallbackTemplates == {
    "(Fallback) Error calling DuckDuckGo for '{topic}': {e}",
    "(Fallback) DuckDuckGo HTTP {r.status_code} for '{topic}'.",
    "(Fallback) No direct summary found for '{topic}'.",
    "(Fallback) Error fetching recipe for '{dish}': {e}",
    "(Fallback) Could not fetch recipe for '{dish}'. HTTP {r.status_code}.",
    "(Fallback) No recipe found online for '{dish}'." }

\* C1: the store holds at most one record per topic, and the summary and
\* source of each record are the content and source of the last
\* save_web_knowledge call made for its topic since the topic was last deleted.
C1_UpsertInvariant ==
    /\ \A r1, r2 \in web : r1.topic = r2.topic => r1 = r2
    /\ \A r \in web : \E u \in lastUpsert :
          u.topic = r.topic /\ u.content = r.summary /\ u.source = r.source

\* C1 witness: the record with id 1 was overwritten by the last command (the
\* record with id 2 was inserted between its creation and that command) with
\* a source other than the one of a topic fetch.
C1_Witness ==
    /\ CommandServed
    /\ resp.source = TagRecipeApi
    /\ \E r \in web : r.id = 1 /\ r.topic = resp.topic_or_dish /\ r.source = TagRecipeApi
    /\ \E r \in web : r.id = 2

\* C2: when the provider of a command fails, the command still answers 200
\* with from_internet false and a debug_error, and the placeholder text is
\* stored under the fallback tag: in a new record when the topic had none,
\* else in the record the topic had (same id), and never in a second record.
C2_FallbackPersisted ==
    [][ (resp'.op = "command" /\ resp'.status # 400 /\ ReplyFails(resp'.request.reply)) =>
          LET t == classified[resp'.request.command].topic_or_dish IN
          /\ resp'.status = 200
          /\ resp'.from_internet = FALSE
          /\ ~ resp'.debug_error.is_none
          /\ endswith(resp'.source, FallbackSuffix)
          /\ Cardinality({ r \in web' : r.topic = t }) = 1
          /\ \A r \in web' : r.topic = t =>
                /\ r.source = resp'.source
                /\ r.summary.fmt \in FallbackTemplates
                /\ r.summary.subject = t
          /\ \A r \in web : r.topic = t => \E q \in web' : q.id = r.id /\ q.topic = t
          /\ Cardinality(web') = Cardinality(web) + (IF present(web, t) THEN 0 ELSE 1)
      ]_vars

\* C2 witness: the last command failed for a topic whose record was there
\* before it (the record with id 2 was inserted after that record), and the
\* record now holds the fallback tag.
C2_Witness ==
    /\ CommandServed
    /\ ReplyFails(resp.request.reply)
    /\ \E r \in web : r.id = 1 /\ r.topic = resp.topic_or_dish
                      /\ r.source = TagDuckduckgoFallback
    /\ \E r \in web : r.id = 2 /\ r.source = TagRecipeApi

\* C3: when two /command requests for one topic have both completed, neither
\* ended in a storage error, and the store holds exactly one record of the
\* topic, with the content and source of one of the two.
C3_ConcurrentUpsertsSucceed ==
    ( /\ \A r \in Requests : reqs[r].pc = "done" /\ reqs[r].status # 400
      /\ reqs[1].topic = reqs[2].topic ) =>
        /\ \A r \in Requests : reqs[r].status = 200
        /\ Cardinality({ w \in web : w.topic = reqs[1].topic }) = 1
        /\ \A w \in web : w.topic = reqs[1].topic =>
              \E r \in Requests : w.summary = reqs[r].content /\ w.source = reqs[r].source

\* The subject as C4 states it: the first prefix of the list that the text
\* starts with is removed, and no other; then one trailing period.
FirstMatchSubject(text) ==
    LET hits == { i \in 1..Len(Prefixes) : startswith(text, Prefixes[i]) } IN
    IF hits = {} THEN strip_period(text)
    ELSE LET i == CHOOSE j \in hits : \A k \in hits : j <= k IN
         strip_period(strip(SubSeq(text, Len(Prefixes[i]) + 1, Len(text))))

\* C4: the subject of a command is its normalized text minus the first
\* matching prefix only, minus one trailing period, trimmed.
C4_FirstPrefixOnly ==
    (parsed # NoResult /\ normalize(cmdIn) # <<>>) =>
        IF parsed.status = 200
        THEN parsed.topic_or_dish = FirstMatchSubject(normalize(cmdIn))
        ELSE FirstMatchSubject(normalize(cmdIn)) = <<>>

LearnAboutBlackHoles ==
    <<"l","e","a","r","n"," ","a","b","o","u","t"," ","b","l","a","c","k"," ","h","o","l","e","s">>
BlackHoles == <<"b","l","a","c","k"," ","h","o","l","e","s">>
MakeButterChicken ==
    <<"m","a","k","e"," ","b","u","t","t","e","r"," ","c","h","i","c","k","e","n">>
ButterChicken == <<"b","u","t","t","e","r"," ","c","h","i","c","k","e","n">>

\* C5: "learn about black holes" is Topic with subject "black holes", "make
\* butter chicken" is Recipe with subject "butter chicken", and a command is
\* Recipe exactly when its normalized text contains cook, recipe or make.
C5_IntentAndSubject ==
    parsed # NoResult =>
        /\ cmdIn = LearnAboutBlackHoles =>
              parsed = [status |-> 200, detected_type |-> "topic", topic_or_dish |-> BlackHoles]
        /\ cmdIn = MakeButterChicken =>
              parsed = [status |-> 200, detected_type |-> "recipe", topic_or_dish |-> ButterChicken]
        /\ parsed.status = 200 =>
              (parsed.detected_type = "recipe" <=>
                  \E kw \in {KwCook, KwRecipe, KwMake} : contains(normalize(cmdIn), kw))

\* The commands of Spec that C6 is about: empty once lower-cased and trimmed,
\* or with a subject that is empty once prefix and trailing period are removed.
WithoutSubject ==
    { command \in Commands :
        LET text == normalize(command) IN
        \/ text = <<>>
        \/ FirstMatchSubject(text) = <<>>
        \/ dish_or_topic(text) = <<>> }

\* C6: a command that is empty once lower-cased and trimmed, or whose subject
\* is empty once prefix and trailing period are removed, is answered 400, no
\* provider is called, and the three tables are as they were.
C6_RejectedCommandChangesNothing ==
    [][ ( resp'.op = "command" /\ resp'.request.command \in WithoutSubject ) =>
          /\ resp'.status = 400
          /\ calls' = <<>>
          /\ UNCHANGED <<web, concepts, experiences>>
      ]_vars

\* C6 witness: "learn" was rejected for its empty subject while the tables hold rows.
C6_Witness ==
    /\ resp.op = "command" /\ resp.status = 400
    /\ resp.request.command = <<"l","e","a","r","n">>
    /\ resp.detail = "Could not detect topic/dish from command."
    /\ web # {} /\ concepts # {} /\ experiences # <<>>

C8_ResponseConsistent ==
    ( resp.op = "command" /\ resp.status = 200 ) =>
        /\ resp.debug_error.is_none <=> resp.from_internet
        /\ endswith(resp.source, FallbackSuffix) <=> ~ resp.from_internet
        /\ resp.detected_type = "recipe" => resp.source \in {TagRecipeApi, TagRecipeApiFallback}
        /\ \E r \in web : r.topic = resp.topic_or_dish /\ r.source = resp.source

\* C8 witness: a topic command whose provider answered with a status other than 200.
C8_Witness ==
    /\ resp.op = "command" /\ resp.status = 200
    /\ resp.detected_type = "topic"
    /\ ~ resp.request.reply.exc
    /\ resp.request.reply.status_code = 404
    /\ resp.debug_error = Str(<<"HTTP ", "404">>)

\* C9: DELETE of an absent topic answers 404 and changes nothing; DELETE of a
\* present topic removes the record of that topic and nothing else; GET
\* answers 404 exactly for the absent topics; and a topic gets a record only
\* by a /command for it.
C9_DeleteFrame ==
    [][ /\ resp'.op = "delete_knowledge" =>
             /\ resp'.status = (IF present(web, resp'.request) THEN 200 ELSE 404)
             /\ web' = { r \in web : r.topic # resp'.request }
             /\ Cardinality(web') = Cardinality(web) - (IF present(web, resp'.request) THEN 1 ELSE 0)
             /\ UNCHANGED <<concepts, experiences>>
        /\ resp'.op = "get_knowledge" =>
             /\ resp'.status = (IF present(web, resp'.request) THEN 200 ELSE 404)
             /\ UNCHANGED <<web, concepts, experiences>>
        /\ \A t \in Topics : (~ present(web, t) /\ present(web', t)) =>
             /\ resp'.op = "command" /\ resp'.status = 200
             /\ resp'.topic_or_dish = t
      ]_vars

\* C9 witness: a record was deleted while another record, a concept and an
\* experience were there.
C9_Witness ==
    /\ resp.op = "delete_knowledge" /\ resp.status = 200
    /\ ~ present(web, resp.request)
    /\ web # {} /\ concepts # {} /\ experiences # <<>>

\* The rows of experiences about a word, in insertion order.
experiences_of(word) == SelectSeq(experiences, LAMBDA e : e.word = word)

\* C10: at most one Concept per word; 1 <= correct_count = seen_count; the
\* label is the true_label of the last teach of the word; the word has
\* seen_count Experience rows, and none when it has no Concept; and a
\* /reset_all with a wrong phrase changes no table.
C10_TeachBookkeeping ==
    /\ [] ( /\ \A c1, c2 \in concepts : c1.word = c2.word => c1 = c2
            /\ \A c \in concepts :
                  /\ 1 <= c.correct_count /\ c.correct_count = c.seen_count
                  /\ Len(experiences_of(c.word)) = c.seen_count
                  /\ c.label = experiences_of(c.word)[c.seen_count].true_label
            /\ \A w \in Words :
                  (~ \E c \in concepts : c.word = w) => experiences_of(w) = <<>> )
    /\ [][ (resp'.op = "reset_all" /\ resp'.request # "yes_i_am_sure") =>
              /\ resp'.status = 400
              /\ UNCHANGED <<web, concepts, experiences>> ]_vars

\* C10 witness: a word taught twice, with a new label the second time, and
\* another word taught once.
C10_Witness ==
    /\ \E c \in concepts : c.seen_count = 2 /\ c.label # experiences_of(c.word)[1].true_label
    /\ Cardinality(concepts) = 2

=============================================================================
